---- MODULE Spec2Model ----
(***************************************************************************)
(* Model of minion_zoo/minion.py: the minion class hierarchy (minion,      *)
(* ExpertMinion, AllTheSingleLabelsMinion, RandomMinion, NoisyMinion),     *)
(* driven by a caller that constructs labelers and calls classify on them  *)
(* in any order.  Two callers are modelled.  The "single" caller holds one *)
(* labeler and draws every argument from the full sets.  The "zoo" caller  *)
(* holds up to MaxMinions labelers, names them as test.py's main does      *)
(* (names[id]) and draws the other arguments from the ends of the sets.    *)
(*                                                                         *)
(* Reals are fixed-point: a confusion matrix element p and a draw u of     *)
(* random.random() are the integers p*Scale and u*Scale.                   *)
(* Python values that a label can be are tagged with their type, because   *)
(* NoisyMinion.classify returns a bool on its flip branch.                 *)
(***************************************************************************)
EXTENDS Integers, Sequences, FiniteSets, TLC

\* ---- bounds of the model ------------------------------------------------
MaxMinions == 2      \* labelers the zoo caller constructs
MaxId == 2           \* minion ids are 1..MaxId
MaxSubject == 2      \* subject ids are 1..MaxSubject
MaxLabel == 1        \* labels handed to constructors are 0..MaxLabel
MaxGold == 2         \* gold labels handed to classify are 0..MaxGold
MaxLabels == 2       \* length of a RandomMinion's labels list
Scale == 10          \* fixed-point unit: the real x is the integer x*Scale
RngPeriod == 2       \* the shared generator's state, as a position mod its period

Harnesses == {"single", "zoo"}
Ids == 1..MaxId
Names == {"a", "b"}
IdNames(h) ==
  IF h = "single" THEN Ids \X Names ELSE {<<1, "a">>, <<MaxId, "b">>}
Subjects(h) == IF h = "single" THEN 1..MaxSubject ELSE {1, MaxSubject}
LabelSpace(h) == IF h = "single" THEN 0..MaxLabel ELSE {0, MaxLabel}
GoldLabels(h) == IF h = "single" THEN 0..MaxGold ELSE 0..1
LabelLists(h) ==
  IF h = "single"
  THEN UNION {[1..n -> 0..MaxLabel] : n \in 0..MaxLabels}
  ELSE {<<0>>, <<0, 1>>}
\* -0.5, 0, 0.2, 1, 1.5
CMValues == {0 - (Scale \div 2), 0, Scale \div 5, Scale, (3 * Scale) \div 2}
Matrices(h) ==
  IF h = "single" THEN [1..2 -> CMValues] ELSE [1..2 -> {Scale \div 5, Scale}]
\* random.random() is in [0,1)
Draws(h) ==
  IF h = "single" THEN 0..(Scale - 1) ELSE {0, Scale \div 5, Scale - 1}

\* ---- Python values ------------------------------------------------------
PyInt(n) == [t |-> "int", v |-> n]
PyBool(b) == [t |-> "bool", v |-> IF b THEN 1 ELSE 0]
\* Python's ==: bool is a subclass of int, True == 1 and False == 0
PyEq(x, y) == x.v = y.v
NoLabel == [t |-> "none", v |-> 0 - 1]

Return(subject_id, label) ==
  [status |-> "return", exc |-> "", subject_id |-> subject_id, label |-> label]
Raise(e) ==
  [status |-> "raise", exc |-> e, subject_id |-> 0, label |-> NoLabel]
Constructed ==
  [status |-> "constructed", exc |-> "", subject_id |-> 0, label |-> NoLabel]
NoResult ==
  [status |-> "none", exc |-> "", subject_id |-> 0, label |-> NoLabel]

VARIABLES
  harness,   \* which caller drives the labelers
  minions,   \* the labelers the caller holds, in construction order
  given,     \* history: the arguments each labeler was constructed with
  rng,       \* state of the process-wide random generator
  last,      \* the caller's last call: operation and arguments
  result     \* what the last call returned or raised

vars == <<harness, minions, given, rng, last, result>>

NoCall ==
  [op |-> "none", cls |-> "", slot |-> 0, id |-> 0, name |-> "", arg |-> <<>>,
   subject_id |-> 0, gold_label |-> 0 - 1, u |-> 0 - 1]

NewCall(cls, slot, id, name, arg) ==
  [op |-> "new", cls |-> cls, slot |-> slot, id |-> id, name |-> name, arg |-> arg,
   subject_id |-> 0, gold_label |-> 0 - 1, u |-> 0 - 1]

ClassifyCall(cls, slot, subject_id, gold_label, u) ==
  [op |-> "classify", cls |-> cls, slot |-> slot, id |-> 0, name |-> "", arg |-> <<>>,
   subject_id |-> subject_id, gold_label |-> gold_label, u |-> u]

Init ==
  /\ harness \in Harnesses
  /\ minions = <<>>
  /\ given = <<>>
  /\ rng \in 0..(RngPeriod - 1)
  /\ last = NoCall
  /\ result = NoResult

\* ---- constructors -------------------------------------------------------
minion_init(id, name) == [cls |-> "minion", id |-> id, name |-> name]

ExpertMinion_init(id, name) == [cls |-> "ExpertMinion", id |-> id, name |-> name]

\* mutant: self.label = id
AllTheSingleLabelsMinion_init_id(id, name, label) ==
  [cls |-> "AllTheSingleLabelsMinion", id |-> id, name |-> name, label |-> id]
AllTheSingleLabelsMinion_init(id, name, label) ==
  [cls |-> "AllTheSingleLabelsMinion", id |-> id, name |-> name, label |-> label]

RandomMinion_init(id, name, labels) ==
  [cls |-> "RandomMinion", id |-> id, name |-> name, labels |-> labels]

\* mutant: <= and >= in place of < and >
BadMatrixNonStrict(cm) ==
  /\ \E i \in DOMAIN cm : cm[i] <= 0
  /\ \E i \in DOMAIN cm : cm[i] >= Scale
\* (confusion_matrix < 0).any() and (confusion_matrix > 1).any()
BadMatrix(cm) ==
  /\ \E i \in DOMAIN cm : cm[i] < 0
  /\ \E i \in DOMAIN cm : cm[i] > Scale

NoisyMinion_init(id, name, confusion_matrix) ==
  [cls |-> "NoisyMinion", id |-> id, name |-> name,
   confusion_matrix |-> confusion_matrix]

\* a successful constructor call hands the caller a new object
Construct(obj, arg) ==
  /\ minions' = Append(minions, obj)
  /\ given' = Append(given, [id |-> obj.id, name |-> obj.name, arg |-> arg])
  /\ last' = NewCall(obj.cls, Len(minions'), obj.id, obj.name, arg)
  /\ result' = Constructed
  /\ UNCHANGED <<harness, rng>>

CanConstruct == Len(minions) < (IF harness = "single" THEN 1 ELSE MaxMinions)

NewMinion ==
  /\ CanConstruct
  /\ \E p \in IdNames(harness) : Construct(minion_init(p[1], p[2]), <<>>)

NewExpertMinion ==
  /\ CanConstruct
  /\ \E p \in IdNames(harness) : Construct(ExpertMinion_init(p[1], p[2]), <<>>)

NewAllTheSingleLabelsMinion ==
  /\ CanConstruct
  /\ \E p \in IdNames(harness), label \in LabelSpace(harness) :
       Construct(AllTheSingleLabelsMinion_init(p[1], p[2], label), <<label>>)

NewRandomMinion ==
  /\ CanConstruct
  /\ \E p \in IdNames(harness), labels \in LabelLists(harness) :
       Construct(RandomMinion_init(p[1], p[2], labels), labels)

NewNoisyMinion ==
  /\ CanConstruct
  /\ \E p \in IdNames(harness), cm \in Matrices(harness) :
       IF BadMatrix(cm)
       THEN \* ValueError: the half-built object is dropped
            /\ last' = NewCall("NoisyMinion", 0, p[1], p[2], cm)
            /\ result' = Raise("ValueError")
            /\ UNCHANGED <<harness, minions, given, rng>>
       ELSE Construct(NoisyMinion_init(p[1], p[2], cm), cm)

\* ---- classify -----------------------------------------------------------
\* mutant: "return NotImplementedError" in place of "raise"
minion_classify_returns(self, subject_id) == Return(subject_id, NoLabel)
minion_classify(self, subject_id) == Raise("NotImplementedError")

\* mutant: the pair's components swapped
ExpertMinion_classify_swapped(self, subject_id, gold_label) ==
  Return(gold_label, PyInt(subject_id))
ExpertMinion_classify(self, subject_id, gold_label) ==
  Return(subject_id, PyInt(gold_label))

AllTheSingleLabelsMinion_classify(self, subject_id) ==
  Return(subject_id, PyInt(self.label))

\* mutant: self.labels[0] in place of random.choice(self.labels)
RandomMinion_classify_first(self, subject_id, k) ==
  IF Len(self.labels) = 0
  THEN Raise("IndexError")
  ELSE Return(subject_id, PyInt(self.labels[1]))
\* random.choice(seq): IndexError on an empty sequence, else seq[k]
\* for the index k the generator picks
RandomMinion_classify(self, subject_id, k) ==
  IF Len(self.labels) = 0
  THEN Raise("IndexError")
  ELSE Return(subject_id, PyInt(self.labels[k]))

\* mutant: the comparison reversed
NoisyMinion_classify_reversed(self, subject_id, gold_label, u) ==
  IF gold_label \notin 0..(Len(self.confusion_matrix) - 1)
  THEN Raise("IndexError")
  ELSE IF u > self.confusion_matrix[gold_label + 1]
       THEN Return(subject_id, PyInt(gold_label))
       ELSE Return(subject_id, PyBool(gold_label = 0))
\* mutant: <= in place of <
NoisyMinion_classify_le(self, subject_id, gold_label, u) ==
  IF gold_label \notin 0..(Len(self.confusion_matrix) - 1)
  THEN Raise("IndexError")
  ELSE IF u <= self.confusion_matrix[gold_label + 1]
       THEN Return(subject_id, PyInt(gold_label))
       ELSE Return(subject_id, PyBool(gold_label = 0))
\* mutant: the flip computed as gold_label == 1
NoisyMinion_classify_flip1(self, subject_id, gold_label, u) ==
  IF gold_label \notin 0..(Len(self.confusion_matrix) - 1)
  THEN Raise("IndexError")
  ELSE IF u < self.confusion_matrix[gold_label + 1]
       THEN Return(subject_id, PyInt(gold_label))
       ELSE Return(subject_id, PyBool(gold_label = 1))
NoisyMinion_classify(self, subject_id, gold_label, u) ==
  IF gold_label \notin 0..(Len(self.confusion_matrix) - 1)
  THEN Raise("IndexError")
  ELSE IF u < self.confusion_matrix[gold_label + 1]
       THEN Return(subject_id, PyInt(gold_label))
       ELSE Return(subject_id, PyBool(gold_label = 0))

\* one draw from the shared generator advances its state
Advance(r) == (r + 1) % RngPeriod

ClassifyMinion ==
  \E s \in DOMAIN minions, subject_id \in Subjects(harness) :
    /\ minions[s].cls = "minion"
    /\ result' = minion_classify(minions[s], subject_id)
    /\ last' = ClassifyCall("minion", s, subject_id, 0 - 1, 0 - 1)
    /\ UNCHANGED <<harness, minions, given, rng>>

ClassifyExpert ==
  \E s \in DOMAIN minions, subject_id \in Subjects(harness), gold_label \in GoldLabels(harness) :
    /\ minions[s].cls = "ExpertMinion"
    /\ result' = ExpertMinion_classify(minions[s], subject_id, gold_label)
    /\ last' = ClassifyCall("ExpertMinion", s, subject_id, gold_label, 0 - 1)
    /\ UNCHANGED <<harness, minions, given, rng>>

ClassifyAllTheSingleLabels ==
  \E s \in DOMAIN minions, subject_id \in Subjects(harness) :
    /\ minions[s].cls = "AllTheSingleLabelsMinion"
    /\ result' = AllTheSingleLabelsMinion_classify(minions[s], subject_id)
    /\ last' = ClassifyCall("AllTheSingleLabelsMinion", s, subject_id, 0 - 1, 0 - 1)
    /\ UNCHANGED <<harness, minions, given, rng>>

RemoveAt(seq, k) == [i \in 1..(Len(seq) - 1) |-> IF i < k THEN seq[i] ELSE seq[i + 1]]

\* mutant: the draw removes the label from self.labels (self.labels.pop)
ClassifyRandomPop(s, subject_id) ==
  /\ minions[s].cls = "RandomMinion"
  /\ \E k \in IF Len(minions[s].labels) = 0 THEN {0} ELSE 1..Len(minions[s].labels) :
       /\ result' = RandomMinion_classify(minions[s], subject_id, k)
       /\ minions' = IF k = 0 THEN minions
                     ELSE [minions EXCEPT ![s].labels = RemoveAt(minions[s].labels, k)]
  /\ last' = ClassifyCall("RandomMinion", s, subject_id, 0 - 1, 0 - 1)
  /\ rng' = IF Len(minions[s].labels) = 0 THEN rng ELSE Advance(rng)
  /\ UNCHANGED <<harness, given>>

ClassifyRandomOn(s, subject_id) ==
  /\ minions[s].cls = "RandomMinion"
  /\ \E k \in IF Len(minions[s].labels) = 0 THEN {0} ELSE 1..Len(minions[s].labels) :
       result' = RandomMinion_classify(minions[s], subject_id, k)
  /\ last' = ClassifyCall("RandomMinion", s, subject_id, 0 - 1, 0 - 1)
  /\ rng' = IF Len(minions[s].labels) = 0 THEN rng ELSE Advance(rng)
  /\ UNCHANGED <<harness, minions, given>>

ClassifyRandom ==
  \E s \in DOMAIN minions, subject_id \in Subjects(harness) : ClassifyRandomOn(s, subject_id)

ClassifyNoisy ==
  \E s \in DOMAIN minions, subject_id \in Subjects(harness), gold_label \in GoldLabels(harness),
     u \in Draws(harness) :
    /\ minions[s].cls = "NoisyMinion"
    /\ result' = NoisyMinion_classify(minions[s], subject_id, gold_label, u)
    /\ last' = ClassifyCall("NoisyMinion", s, subject_id, gold_label, u)
    /\ rng' = Advance(rng)
    /\ UNCHANGED <<harness, minions, given>>

Next ==
  \/ NewMinion
  \/ NewExpertMinion
  \/ NewAllTheSingleLabelsMinion
  \/ NewRandomMinion
  \/ NewNoisyMinion
  \/ ClassifyMinion
  \/ ClassifyExpert
  \/ ClassifyAllTheSingleLabels
  \/ ClassifyRandom
  \/ ClassifyNoisy

Spec == Init /\ [][Next]_vars

\* ---- properties ---------------------------------------------------------
Classified(cls) == last.op = "classify" /\ last.cls = cls
Built(cls) == last.op = "new" /\ last.cls = cls
OutOfRange(p) == p < 0 \/ p > Scale
Binary == {0, 1}
Other(l) == 1 - l

\* C1: constructing a NoisyMinion raises ValueError whenever at least one
\* element of the confusion matrix is below 0 or above 1, and no labeler is
\* produced.
C1_OutOfRangeRejected ==
  (Built("NoisyMinion") /\ \E i \in DOMAIN last.arg : OutOfRange(last.arg[i]))
    => (result = Raise("ValueError") /\ last.slot = 0)

\* C2: ExpertMinion.classify(subject_id, gold_label) returns exactly
\* (subject_id, gold_label).
C2_ExpertReturnsGold ==
  Classified("ExpertMinion")
    => result = Return(last.subject_id, PyInt(last.gold_label))

C2_Witness ==
  /\ Classified("ExpertMinion")
  /\ last.subject_id = 1
  /\ last.gold_label = 2
  /\ result.status = "return"

\* C3: an AllTheSingleLabelsMinion constructed with label L returns
\* (subject_id, L) from every classify call.
C3_ConstantLabel ==
  Classified("AllTheSingleLabelsMinion")
    => result = Return(last.subject_id, PyInt(given[last.slot].arg[1]))

C3_Witness ==
  /\ Classified("AllTheSingleLabelsMinion")
  /\ given[last.slot].arg = <<0>>
  /\ given[last.slot].id = 2
  /\ last.subject_id = 2
  /\ result.status = "return"

\* C4: a NoisyMinion constructed with confusion_matrix = [1, 1] returns, for
\* every gold_label in {0,1} and every draw u, what ExpertMinion.classify
\* returns for the same arguments: (subject_id, gold_label).
C4_AllOnesIsExpert ==
  (/\ Classified("NoisyMinion")
   /\ given[last.slot].arg = <<Scale, Scale>>
   /\ last.gold_label \in Binary)
    => /\ result = ExpertMinion_classify(minions[last.slot], last.subject_id,
                                          last.gold_label)
       /\ result = Return(last.subject_id, PyInt(last.gold_label))

C4_Witness ==
  /\ Classified("NoisyMinion")
  /\ given[last.slot].arg = <<Scale, Scale>>
  /\ last.gold_label = 0
  /\ last.u = Scale - 1
  /\ result.status = "return"

\* C5: a RandomMinion constructed with a non-empty labels returns a pair of
\* the input subject_id and a member of labels, and whatever calls came
\* before, every member of labels is a possible result of the next call.
C5_RandomDrawsFromLabels ==
  /\ (Classified("RandomMinion") /\ given[last.slot].arg # <<>>)
       => /\ result.status = "return"
          /\ result.subject_id = last.subject_id
          /\ \E k \in DOMAIN given[last.slot].arg :
               result.label = PyInt(given[last.slot].arg[k])
  /\ \A s \in DOMAIN minions :
       (minions[s].cls = "RandomMinion" /\ given[s].arg # <<>>)
         => \A k \in DOMAIN given[s].arg, subject_id \in Subjects(harness) :
              ENABLED (/\ ClassifyRandomOn(s, subject_id)
                       /\ result' = Return(subject_id, PyInt(given[s].arg[k])))

C5_Witness ==
  /\ Classified("RandomMinion")
  /\ given[last.slot].arg = <<0, 1>>
  /\ result.status = "return"
  /\ result.label = PyInt(1)

\* C6: constructing the base minion stores the id and the name; classify on
\* it raises NotImplementedError, returns nothing and leaves id and name as
\* they were.
C6_BaseNotImplemented ==
  /\ Built("minion")
       => /\ result = Constructed
          /\ minions[last.slot] = [cls |-> "minion", id |-> last.id, name |-> last.name]
  /\ Classified("minion")
       => /\ result = Raise("NotImplementedError")
          /\ minions[last.slot].id = given[last.slot].id
          /\ minions[last.slot].name = given[last.slot].name

C6_Witness ==
  /\ Classified("minion")
  /\ result.status = "raise"
  /\ minions[last.slot].id = 2
  /\ minions[last.slot].name = "b"

\* C7: a NoisyMinion constructed with confusion_matrix = [0, 0] returns, for
\* every gold_label in {0,1} and every draw u, (subject_id, l) with l the
\* other member of {0,1}, never gold_label.
C7_AllZerosAlwaysWrong ==
  (/\ Classified("NoisyMinion")
   /\ given[last.slot].arg = <<0, 0>>
   /\ last.gold_label \in Binary)
    => /\ result.status = "return"
       /\ result.subject_id = last.subject_id
       /\ PyEq(result.label, PyInt(Other(last.gold_label)))
       /\ ~PyEq(result.label, PyInt(last.gold_label))

C7_Witness ==
  /\ Classified("NoisyMinion")
  /\ given[last.slot].arg = <<0, 0>>
  /\ last.gold_label = 0
  /\ last.u = 0
  /\ PyEq(result.label, PyInt(1))

\* C8: constructing a NoisyMinion succeeds for every matrix whose two
\* elements both lie in [0,1], 0 and 1 included, and the labeler holds the
\* supplied matrix, id and name.
C8_InRangeAccepted ==
  (Built("NoisyMinion") /\ \A i \in DOMAIN last.arg : ~OutOfRange(last.arg[i]))
    => /\ result = Constructed
       /\ last.slot \in DOMAIN minions
       /\ minions[last.slot] = [cls |-> "NoisyMinion", id |-> last.id,
                                 name |-> last.name, confusion_matrix |-> last.arg]

C8_Witness ==
  /\ Built("NoisyMinion")
  /\ last.arg = <<0, Scale>>
  /\ result = Constructed
  /\ minions[last.slot].confusion_matrix = <<0, Scale>>

\* C9: a NoisyMinion with matrix [p0, p1] returns (subject_id, gold_label)
\* when u < confusion_matrix[gold_label] and otherwise (subject_id, flipped),
\* flipped the other member of {0,1}; the label is always in {0,1} and the
\* first component is the input subject_id.
C9_NoisyChannel ==
  (Classified("NoisyMinion") /\ last.gold_label \in Binary)
    => /\ result.status = "return"
       /\ result.subject_id = last.subject_id
       /\ \E l \in Binary : PyEq(result.label, PyInt(l))
       /\ IF last.u < given[last.slot].arg[last.gold_label + 1]
          THEN result = Return(last.subject_id, PyInt(last.gold_label))
          ELSE PyEq(result.label, PyInt(Other(last.gold_label)))

C9_Witness ==
  /\ Classified("NoisyMinion")
  /\ given[last.slot].arg = <<Scale, Scale \div 5>>
  /\ last.gold_label = 1
  /\ last.u = Scale \div 5
  /\ PyEq(result.label, PyInt(0))

\* C10: whatever calls were made, on whichever labelers, every labeler's id,
\* name and variant parameter are the ones it was constructed with, and an
\* Expert or Constant-Label call returns what its inputs and those
\* parameters determine.
Parameter(m) ==
  IF m.cls = "AllTheSingleLabelsMinion" THEN <<m.label>>
  ELSE IF m.cls = "RandomMinion" THEN m.labels
  ELSE IF m.cls = "NoisyMinion" THEN m.confusion_matrix
  ELSE <<>>

C10_ClassifyKeepsLabelers ==
  /\ DOMAIN minions = DOMAIN given
  /\ \A s \in DOMAIN minions :
       /\ minions[s].id = given[s].id
       /\ minions[s].name = given[s].name
       /\ Parameter(minions[s]) = given[s].arg
  /\ Classified("ExpertMinion")
       => result = Return(last.subject_id, PyInt(last.gold_label))
  /\ Classified("AllTheSingleLabelsMinion")
       => result = Return(last.subject_id, PyInt(given[last.slot].arg[1]))

C10_Witness ==
  /\ harness = "zoo"
  /\ Len(minions) = 2
  /\ minions[1].cls = "RandomMinion"
  /\ minions[1].labels = <<0, 1>>
  /\ minions[2].cls = "NoisyMinion"
  /\ Classified("RandomMinion")
  /\ last.slot = 1

====
